---- MODULE Spec2Model ----
(***************************************************************************)
(* export-job-telemetry: one run of the action, from reading its inputs to *)
(* process exit.  Three variants of main exist in the repository:          *)
(*   "cmd" : src/cmd/export-job-telemetry/main.go                          *)
(*   "v2"  : src/unnamed/part_001 lines 1-185   (job-name, one attribute   *)
(*           slice handed to a single SetAttributes call)                  *)
(*   "v1"  : src/unnamed/part_001 lines 187-339 (span ended before its     *)
(*           attributes are written)                                       *)
(* Strings are TLA+ strings; a character is a string of length one.        *)
(***************************************************************************)
EXTENDS Integers, Sequences, FiniteSets, TLC

(***************************************************************************)
(* Bounds of the model.                                                    *)
(***************************************************************************)
\* time.Now() is sampled from MaxNowStep + 1 instants
MaxNowStep == 1
\* parseKeyValuePairs is run on every string of at most MaxKVLen characters
\* over KVAlphabet
MaxKVLen == 4

(***************************************************************************)
(* Strings                                                                 *)
(***************************************************************************)
Char(s, i) == SubSeq(s, i, i)

\* the positions of the character c in s
Positions(s, c) == {i \in 1..Len(s) : Char(s, i) = c}

\* the k-th smallest element of a set of numbers
Nth(S, k) == CHOOSE p \in S : Cardinality({q \in S : q <= p}) = k

\* strings.Split(s, sep) for a one-character separator: the pieces between
\* consecutive separators, one more than there are separators
Split(s, sep) ==
    LET P == Positions(s, sep)
        n == Cardinality(P)
        from(k) == IF k = 1 THEN 1 ELSE Nth(P, k - 1) + 1
        to(k) == IF k = n + 1 THEN Len(s) ELSE Nth(P, k) - 1
    IN  [k \in 1..(n + 1) |-> SubSeq(s, from(k), to(k))]

\* a cut at the last separator instead of the first
SplitN2AtLast(s, sep) ==
    LET P == Positions(s, sep)
    IN  IF P = {} THEN <<s>>
        ELSE LET i == Nth(P, Cardinality(P))
             IN  <<SubSeq(s, 1, i - 1), SubSeq(s, i + 1, Len(s))>>

\* strings.SplitN(s, sep, 2): cut at the first separator only
SplitN2(s, sep) ==
    LET P == Positions(s, sep)
    IN  IF P = {} THEN <<s>>
        ELSE LET i == Nth(P, 1)
             IN  <<SubSeq(s, 1, i - 1), SubSeq(s, i + 1, Len(s))>>

EmptyMap == [k \in {} |-> ""]

RECURSIVE PairsFrom(_, _, _)
PairsFrom(pieces, i, pairs) ==
    IF i > Len(pieces) THEN pairs
    ELSE LET kv == SplitN2(pieces[i], "=")
         IN  IF Len(kv) = 2
             THEN PairsFrom(pieces, i + 1,
                            [k \in DOMAIN pairs \cup {kv[1]} |->
                                IF k = kv[1] THEN kv[2] ELSE pairs[k]])
             ELSE PairsFrom(pieces, i + 1, pairs)

parseKeyValuePairs(input) == PairsFrom(Split(input, ","), 1, EmptyMap)

(***************************************************************************)
(* encoding/hex                                                            *)
(***************************************************************************)
\* reverseHexTable: the value of a hex digit, 255 for any other character
HexValue(c) ==
    CASE c = "0" -> 0  [] c = "1" -> 1  [] c = "2" -> 2  [] c = "3" -> 3
      [] c = "4" -> 4  [] c = "5" -> 5  [] c = "6" -> 6  [] c = "7" -> 7
      [] c = "8" -> 8  [] c = "9" -> 9
      [] c = "a" -> 10 [] c = "b" -> 11 [] c = "c" -> 12
      [] c = "d" -> 13 [] c = "e" -> 14 [] c = "f" -> 15
      [] c = "A" -> 10 [] c = "B" -> 11 [] c = "C" -> 12
      [] c = "D" -> 13 [] c = "E" -> 14 [] c = "F" -> 15
      [] OTHER -> 255

\* a decoder that assembles each byte with its two digits exchanged
RECURSIVE DecodeFromSwapped(_, _, _)
DecodeFromSwapped(s, j, bytes) ==
    IF j <= Len(s)
    THEN LET a == HexValue(Char(s, j - 1))
             b == HexValue(Char(s, j))
         IN  IF a > 15 \/ b > 15 THEN [err |-> TRUE, bytes |-> bytes]
             ELSE DecodeFromSwapped(s, j + 2, Append(bytes, b * 16 + a))
    ELSE IF Len(s) % 2 = 1 THEN [err |-> TRUE, bytes |-> bytes]
    ELSE [err |-> FALSE, bytes |-> bytes]

RECURSIVE DecodeFrom(_, _, _)
DecodeFrom(s, j, bytes) ==
    IF j <= Len(s)
    THEN LET a == HexValue(Char(s, j - 1))
             b == HexValue(Char(s, j))
         IN  IF a > 15 \/ b > 15 THEN [err |-> TRUE, bytes |-> bytes]
             ELSE DecodeFrom(s, j + 2, Append(bytes, a * 16 + b))
    ELSE IF Len(s) % 2 = 1 THEN [err |-> TRUE, bytes |-> bytes]
    ELSE [err |-> FALSE, bytes |-> bytes]

\* a decoder that drops a trailing odd digit instead of reporting it
DecodeStringAnyLength(s) ==
    LET r == DecodeFrom(s, 2, <<>>)
    IN  [err |-> \E i \in 1..Len(s) : HexValue(Char(s, i)) > 15, bytes |-> r.bytes]

\* hex.DecodeString: an error for odd length or a non-hex character
DecodeString(s) == DecodeFrom(s, 2, <<>>)

HexDigits == "0123456789abcdef"

RECURSIVE EncodeFrom(_, _)
EncodeFrom(bytes, i) ==
    IF i > Len(bytes) THEN ""
    ELSE Char(HexDigits, (bytes[i] \div 16) + 1)
         \o Char(HexDigits, (bytes[i] % 16) + 1)
         \o EncodeFrom(bytes, i + 1)

\* TraceID.String / SpanID.String: lower-case hex of the bytes
EncodeToString(bytes) == EncodeFrom(bytes, 1)

TraceIDLen == 16
SpanIDLen == 8

\* trace.TraceID(b), trace.SpanID(b): slice-to-array conversion.  It panics
\* when the slice is shorter than the array and keeps the first n bytes
\* of a longer one.
ToArray(bytes, n) ==
    IF Len(bytes) < n THEN [panic |-> TRUE, id |-> <<>>]
    ELSE [panic |-> FALSE, id |-> SubSeq(bytes, 1, n)]

(***************************************************************************)
(* time                                                                    *)
(* An instant is [day, sec, nsec]: days since 1970-01-01 (UTC), second of  *)
(* the day, nanosecond of the second.  A Duration is an int64 count of     *)
(* nanoseconds, held as sign and magnitude [neg, d, s, n] (days, seconds,  *)
(* nanoseconds); a millisecond count is [neg, d, ms] = +-(d*86400000+ms).  *)
(***************************************************************************)
DigitValue(c) ==
    CASE c = "0" -> 0 [] c = "1" -> 1 [] c = "2" -> 2 [] c = "3" -> 3
      [] c = "4" -> 4 [] c = "5" -> 5 [] c = "6" -> 6 [] c = "7" -> 7
      [] c = "8" -> 8 [] c = "9" -> 9 [] OTHER -> -1

RECURSIVE AllDigits(_, _, _)
AllDigits(s, i, j) ==
    IF i > j THEN TRUE
    ELSE DigitValue(Char(s, i)) >= 0 /\ AllDigits(s, i + 1, j)

RECURSIVE NumFrom(_, _, _, _)
NumFrom(s, i, j, acc) ==
    IF i > j THEN acc
    ELSE NumFrom(s, i + 1, j, acc * 10 + DigitValue(Char(s, i)))

Num(s, i, j) == NumFrom(s, i, j, 0)

RECURSIVE Pow10(_)
Pow10(k) == IF k = 0 THEN 1 ELSE 10 * Pow10(k - 1)

IsLeap(y) == (y % 4 = 0) /\ ((y % 100 # 0) \/ (y % 400 = 0))

DaysIn(m, y) ==
    IF m = 2 THEN (IF IsLeap(y) THEN 29 ELSE 28)
    ELSE IF m \in {4, 6, 9, 11} THEN 30 ELSE 31

\* days from 1970-01-01 to the civil date y-m-d (proleptic Gregorian)
DaysFromCivil(y, m, d) ==
    LET yy  == IF m <= 2 THEN y - 1 ELSE y
        era == yy \div 400
        yoe == yy - era * 400
        mp  == IF m > 2 THEN m - 3 ELSE m + 9
        doy == (153 * mp + 2) \div 5 + d - 1
        doe == yoe * 365 + yoe \div 4 - yoe \div 100 + doy
    IN  era * 146097 + doe - 719468

ZeroTime == [day |-> 0, sec |-> 0, nsec |-> 0]

\* last index of the run of digits that starts at i (i - 1 when there is none)
RECURSIVE DigitsEnd(_, _)
DigitsEnd(s, i) ==
    IF i <= Len(s) /\ DigitValue(Char(s, i)) >= 0 THEN DigitsEnd(s, i + 1)
    ELSE i - 1

\* the instant of local second-of-day ls on day, moved by off seconds
Normalise(day, ls, nsec) ==
    IF ls < 0 THEN [day |-> day - 1, sec |-> ls + 86400, nsec |-> nsec]
    ELSE IF ls >= 86400 THEN [day |-> day + 1, sec |-> ls - 86400, nsec |-> nsec]
    ELSE [day |-> day, sec |-> ls, nsec |-> nsec]

\* time.Parse(time.RFC3339, s) on the canonical form
\* YYYY-MM-DDTHH:MM:SS[.fraction](Z|+hh:mm|-hh:mm), fraction of 1..9 digits
ParseRFC3339(s) ==
    LET bad == [err |-> TRUE, t |-> ZeroTime]
    IN  IF Len(s) < 20 THEN bad
        ELSE IF ~ ( AllDigits(s, 1, 4) /\ Char(s, 5) = "-"
                 /\ AllDigits(s, 6, 7) /\ Char(s, 8) = "-"
                 /\ AllDigits(s, 9, 10) /\ Char(s, 11) = "T"
                 /\ AllDigits(s, 12, 13) /\ Char(s, 14) = ":"
                 /\ AllDigits(s, 15, 16) /\ Char(s, 17) = ":"
                 /\ AllDigits(s, 18, 19) ) THEN bad
        ELSE
        LET y   == Num(s, 1, 4)
            mo  == Num(s, 6, 7)
            d   == Num(s, 9, 10)
            h   == Num(s, 12, 13)
            mi  == Num(s, 15, 16)
            sc  == Num(s, 18, 19)
            hasFrac == Char(s, 20) = "."
            fe  == IF hasFrac THEN DigitsEnd(s, 21) ELSE 19
            fl  == fe - 20
            z   == fe + 1
            zl  == Len(s) - fe
        IN  IF hasFrac /\ (fl < 1 \/ fl > 9) THEN bad
            ELSE IF ~ (mo \in 1..12 /\ d >= 1 /\ h <= 23 /\ mi <= 59 /\ sc <= 59)
                 THEN bad
            ELSE IF d > DaysIn(mo, y) THEN bad
            ELSE
            LET nsec == IF hasFrac THEN Num(s, 21, fe) * Pow10(9 - fl) ELSE 0
                day  == DaysFromCivil(y, mo, d)
                ls   == h * 3600 + mi * 60 + sc
            IN  IF zl = 1 /\ Char(s, z) = "Z"
                THEN [err |-> FALSE, t |-> [day |-> day, sec |-> ls, nsec |-> nsec]]
                ELSE IF zl = 6 /\ Char(s, z) \in {"+", "-"}
                        /\ AllDigits(s, z + 1, z + 2) /\ Char(s, z + 3) = ":"
                        /\ AllDigits(s, z + 4, z + 5)
                        /\ Num(s, z + 1, z + 2) <= 23 /\ Num(s, z + 4, z + 5) <= 59
                THEN LET off == Num(s, z + 1, z + 2) * 3600 + Num(s, z + 4, z + 5) * 60
                     IN  [err |-> FALSE,
                          t |-> Normalise(day,
                                          IF Char(s, z) = "+" THEN ls - off ELSE ls + off,
                                          nsec)]
                ELSE bad

\* t.Before(u)
Before(t, u) ==
    \/ t.day < u.day
    \/ t.day = u.day /\ t.sec < u.sec
    \/ t.day = u.day /\ t.sec = u.sec /\ t.nsec < u.nsec

\* a - b for instants a >= b, as days, seconds, nanoseconds
Magnitude(a, b) ==
    LET n0 == a.nsec - b.nsec
        s0 == (a.sec - b.sec) - (IF n0 < 0 THEN 1 ELSE 0)
        d0 == (a.day - b.day) - (IF s0 < 0 THEN 1 ELSE 0)
    IN  [d |-> d0,
         s |-> IF s0 < 0 THEN s0 + 86400 ELSE s0,
         n |-> IF n0 < 0 THEN n0 + 1000000000 ELSE n0]

\* the difference t - u without any limit on its size
ExactSub(t, u) ==
    IF Before(t, u)
    THEN LET m == Magnitude(u, t) IN [neg |-> TRUE, d |-> m.d, s |-> m.s, n |-> m.n]
    ELSE LET m == Magnitude(t, u) IN [neg |-> FALSE, d |-> m.d, s |-> m.s, n |-> m.n]

\* maxDuration = 2^63 - 1 ns = 106751 days 85636 s 854775807 ns
MaxDurationDays == 106751
MaxDurationSecs == 85636
MaxDurationNanos == 854775807

\* the magnitude does not fit an int64 count of nanoseconds
Overflows(x) ==
    LET lim == IF x.neg THEN MaxDurationNanos + 1 ELSE MaxDurationNanos
    IN  \/ x.d > MaxDurationDays
        \/ x.d = MaxDurationDays /\ x.s > MaxDurationSecs
        \/ x.d = MaxDurationDays /\ x.s = MaxDurationSecs /\ x.n > lim

\* Time.Sub: t - u, replaced by minDuration or maxDuration when it overflows
Sub(t, u) ==
    LET x == ExactSub(t, u)
    IN  IF Overflows(x)
        THEN [neg |-> x.neg, d |-> MaxDurationDays, s |-> MaxDurationSecs,
              n |-> IF x.neg THEN MaxDurationNanos + 1 ELSE MaxDurationNanos]
        ELSE x

\* Duration.Milliseconds: int64(d) / 1e6, truncated toward zero
Milliseconds(x) ==
    LET ms == x.s * 1000 + x.n \div 1000000
    IN  [neg |-> x.neg /\ (x.d > 0 \/ ms > 0), d |-> x.d, ms |-> ms]

\* the millisecond count of a small integer
Millis(k) ==
    IF k < 0 THEN [neg |-> TRUE, d |-> 0, ms |-> 0 - k]
    ELSE [neg |-> FALSE, d |-> 0, ms |-> k]

(***************************************************************************)
(* Inputs of one run                                                       *)
(***************************************************************************)
Variants == {"cmd", "v2", "v1"}

TraceIDHex == "4bf92f3577b34da6a3ce929d0e0e4736"
ParentIDHex == "00f067aa0ba902b7"

Traceparents ==
    { "00-" \o TraceIDHex \o "-" \o ParentIDHex \o "-01",
      "00-4BF92F3577B34DA6A3CE929D0E0E4736-00F067AA0BA902b7-00",
      "",
      "00-" \o TraceIDHex \o "-01",
      "00-" \o TraceIDHex \o "-" \o ParentIDHex \o "-01-zz",
      "00-4bf92f3577b34da6a3ce929d0e0e473-" \o ParentIDHex \o "-01",
      "00-4bf92f3577b34da6a3ce929d0e0e47zz-" \o ParentIDHex \o "-01",
      "00-" \o TraceIDHex \o "-00f067aa0ba902b-01",
      "00-" \o TraceIDHex \o "-00f067aa0ba902g7-01",
      "00-4bf92f3577b34da6a3ce929d0e0e47-" \o ParentIDHex \o "-01",
      "00-" \o TraceIDHex \o "ff-" \o ParentIDHex \o "-01",
      "00-" \o TraceIDHex \o "-00f067aa0ba902-01",
      "00-" \o TraceIDHex \o "-" \o ParentIDHex \o "ee-01" }

StartedAts ==
    { "2024-01-01T00:00:00Z",
      "2024-01-01T02:00:09.0005+02:00",
      "1700-01-01T00:00:00Z",
      "yesterday" }

CreatedAts ==
    { "",
      "2023-12-31T23:59:30Z",
      "2024-01-01T00:00:01.2509Z",
      "2024-13-01T00:00:00Z" }

JobStatuses == {"success", "failure", "cancelled", ""}

JobNames == {"", "build"}

ConclusionKey == "ci.github.workflow.job.conclusion"
CmdLatencyKey == "ci.github.workflow.job.latency_ms"
V2LatencyKey == "ci.github.workflow.job.start_latency_ms"
JobNameKey == "ci.github.workflow.job.name"
DurationKey == "ci.github.workflow.job.duration_ms"
V1DurationKey == "job.duration.ms"
ServiceNameKey == "service.name"

ResourceAttrInputs ==
    { "",
      "a=1,bad,b=2",
      "service.name=other,x=1",
      "=v,y=2",
      CmdLatencyKey \o "=7," \o ConclusionKey \o "=ok,"
          \o DurationKey \o "=1," \o JobNameKey \o "=n" }

ServiceNames == {"svc"}
Endpoints == {"otelcol.foo.corp:443"}
HeaderInputs == {"authorization=Bearer a=b"}

\* the instants time.Now() may return
NowSamples ==
    { [day |-> 19723, sec |-> 5 + 40000 * k, nsec |-> 700000 * k] : k \in 0..MaxNowStep }

Inputs ==
    [ traceparent : Traceparents,
      otelResourceAttributes : ResourceAttrInputs,
      otelServiceName : ServiceNames,
      otelExporterOtlpEndpoint : Endpoints,
      otelExporterOtlpHeaders : HeaderInputs,
      startedAt : StartedAts,
      createdAt : CreatedAts,
      jobStatus : JobStatuses,
      jobName : JobNames ]

(***************************************************************************)
(* Span attributes and spans                                               *)
(***************************************************************************)
\* attribute.String(k, v), attribute.Int64(k, v)
StringAttr(k, v) == [key |-> k, kind |-> "STRING", str |-> v, num |-> Millis(0)]
Int64Attr(k, m) == [key |-> k, kind |-> "INT64", str |-> "", num |-> m]

\* the value part of an attribute
Value(kv) == [kind |-> kv.kind, str |-> kv.str, num |-> kv.num]

NoContext == [traceID |-> <<>>, spanID |-> <<>>, sampled |-> FALSE, remote |-> FALSE]

NoStatus == [code |-> "Unset", message |-> ""]

NoSpan ==
    [ state |-> "none", name |-> "", parent |-> NoContext,
      start |-> ZeroTime, end |-> ZeroTime,
      attrs |-> EmptyMap, status |-> NoStatus, statusSet |-> FALSE ]

\* KeyValue.Valid(): an attribute with an empty key is not one
Valid(k) == k # ""

RECURSIVE PutAll(_, _, _)
PutAll(attrs, kvs, i) ==
    IF i > Len(kvs) THEN attrs
    ELSE IF ~Valid(kvs[i].key) THEN PutAll(attrs, kvs, i + 1)
    ELSE PutAll([k \in DOMAIN attrs \cup {kvs[i].key} |->
                    IF k = kvs[i].key THEN Value(kvs[i]) ELSE attrs[k]],
                kvs, i + 1)

\* span.SetAttributes(kvs...): a later write of a key replaces an earlier
\* one and an attribute that is not valid is dropped; a span that is not
\* recording (never started, or ended) ignores it
SetAttributes(sp, kvs) ==
    IF sp.state # "recording" THEN sp
    ELSE [sp EXCEPT !.attrs = PutAll(sp.attrs, kvs, 1)]

\* span.SetStatus(code, message): the span keeps the code and the message
\* main hands over
SetStatus(sp, code, message) ==
    IF sp.state # "recording" THEN sp
    ELSE [sp EXCEPT !.status = [code |-> code, message |-> message],
                    !.statusSet = TRUE]

\* tracer.Start(ctx, name, trace.WithTimestamp(t))
Start(ctx, name, t) ==
    [ state |-> "recording", name |-> name, parent |-> ctx,
      start |-> t, end |-> ZeroTime,
      attrs |-> EmptyMap, status |-> NoStatus, statusSet |-> FALSE ]

\* an End that stamps the span with a later reading of the clock
EndAtLaterNow(sp, t) ==
    IF sp.state # "recording" THEN sp
    ELSE [sp EXCEPT !.state = "ended", !.end = [t EXCEPT !.sec = (t.sec + 1) % 86400]]

\* span.End(trace.WithTimestamp(t))
End(sp, t) ==
    IF sp.state # "recording" THEN sp
    ELSE [sp EXCEPT !.state = "ended", !.end = t]

\* the entries of a map as string attributes; keys are unique, so the
\* order in which range visits them does not change what ends up on the span
RECURSIVE MapAttrs(_, _)
MapAttrs(m, keys) ==
    IF keys = {} THEN <<>>
    ELSE LET k == CHOOSE x \in keys : TRUE
         IN  <<StringAttr(k, m[k])>> \o MapAttrs(m, keys \ {k})

\* a switch whose default branch reports a failed job
StatusOfDefaultError(jobStatus) ==
    CASE jobStatus = "success" -> [code |-> "Ok", message |-> "Job completed successfully"]
      [] OTHER -> [code |-> "Error", message |-> "Job failed"]

\* the switch on params.JobStatus
StatusOf(jobStatus) ==
    CASE jobStatus = "success" -> [code |-> "Ok", message |-> "Job completed successfully"]
      [] jobStatus = "failure" -> [code |-> "Error", message |-> "Job failed"]
      [] OTHER -> [code |-> "Unset", message |-> "Job status unknown"]

\* a resource in which an attribute named service.name wins over the input
ResourceOfAttrsLast(serviceName, attrs) ==
    [k \in {a \in DOMAIN attrs : Valid(a)} \cup {ServiceNameKey} |->
        IF k \in DOMAIN attrs THEN attrs[k] ELSE serviceName]

\* the resource of initTracer: the attributes, then service.name; of two
\* attributes with one key resource.NewWithAttributes keeps the later, and
\* it drops an attribute that is not valid
ResourceOf(serviceName, attrs) ==
    [k \in {a \in DOMAIN attrs : Valid(a)} \cup {ServiceNameKey} |->
        IF k = ServiceNameKey THEN serviceName ELSE attrs[k]]

(***************************************************************************)
(* State                                                                   *)
(***************************************************************************)
VARIABLES
    variant,        \* which main runs
    inputs,         \* the action inputs, as the host supplies them
    pc,             \* position in main
    params,         \* InputParams
    provider,       \* the tracer provider: state, resource
    deferred,       \* defer shutdownTracer() has been executed
    parts,          \* strings.Split(params.Traceparent, "-")
    traceID,        \* decoded bytes
    parentSpanID,   \* decoded bytes
    ctx,            \* the remote span context
    startedAtTime,
    endTime,
    attributes,     \* the attribute slice of variant v2
    span,
    history,        \* the life-cycle steps taken, in order
    exported,       \* the spans the pipeline delivered
    failure,        \* the error that occurred, "none" if none
    flushError,     \* tracerProvider.Shutdown returned an error
    exitCode        \* -1 while the process runs

vars == << variant, inputs, pc, params, provider, deferred, parts, traceID,
           parentSpanID, ctx, startedAtTime, endTime, attributes, span,
           history, exported, failure, flushError, exitCode >>

env == << variant, inputs >>
decoded == << parts, traceID, parentSpanID, ctx, startedAtTime >>
outcome == << exported, failure, flushError, exitCode >>

NoParams == [Traceparent |-> ""]
NoProvider == [state |-> "none", resource |-> EmptyMap]

Init ==
    /\ variant \in Variants
    /\ inputs \in Inputs
    /\ pc = "parseInputParams"
    /\ params = NoParams
    /\ provider = NoProvider
    /\ deferred = FALSE
    /\ parts = <<>>
    /\ traceID = <<>>
    /\ parentSpanID = <<>>
    /\ ctx = NoContext
    /\ startedAtTime = ZeroTime
    /\ endTime = ZeroTime
    /\ attributes = <<>>
    /\ span = NoSpan
    /\ history = <<>>
    /\ exported = {}
    /\ failure = "none"
    /\ flushError = FALSE
    /\ exitCode = -1

\* githubactions.Fatalf: log the message and os.Exit(1); deferred calls
\* do not run
Fatalf(kind) ==
    /\ pc' = "exited"
    /\ failure' = kind
    /\ exitCode' = 1

(***************************************************************************)
(* main, the part the three variants share                                 *)
(***************************************************************************)
\* parseInputParams: cmd has no JobName, v1 neither JobStatus nor JobName
parseInputParams(v, in) ==
    LET base == [ Traceparent |-> in.traceparent,
                  OtelResourceAttrs |-> parseKeyValuePairs(in.otelResourceAttributes),
                  OtelServiceName |-> in.otelServiceName,
                  OtelExporterEndpoint |-> in.otelExporterOtlpEndpoint,
                  OtelExporterOtlpHeaders |-> parseKeyValuePairs(in.otelExporterOtlpHeaders),
                  StartedAt |-> in.startedAt,
                  CreatedAt |-> in.createdAt ]
    IN  CASE v = "v1"  -> base
          [] v = "cmd" -> base @@ [JobStatus |-> in.jobStatus]
          [] OTHER     -> base @@ [JobStatus |-> in.jobStatus, JobName |-> in.jobName]

ParseInputParams ==
    /\ pc = "parseInputParams"
    /\ params' = parseInputParams(variant, inputs)
    /\ pc' = "initTracer"
    /\ UNCHANGED << env, provider, deferred, decoded, endTime, attributes,
                    span, history, outcome >>

\* initTracer, and the defer of the function it returns
InitTracer ==
    /\ pc = "initTracer"
    /\ \E err \in BOOLEAN :
         IF err
         THEN /\ Fatalf("ExporterInitError")
              /\ UNCHANGED << provider, deferred >>
         ELSE /\ provider' = [ state |-> "active",
                               resource |-> ResourceOf(params.OtelServiceName,
                                                       params.OtelResourceAttrs) ]
              /\ deferred' = TRUE
              /\ pc' = "splitTraceparent"
              /\ UNCHANGED << failure, exitCode >>
    /\ UNCHANGED << env, params, decoded, endTime, attributes, span, history,
                    exported, flushError >>

SplitTraceparent ==
    /\ pc = "splitTraceparent"
    /\ parts' = Split(params.Traceparent, "-")
    /\ IF Len(parts') # 4
       THEN Fatalf("InvalidTraceContext")
       ELSE pc' = "decodeTraceID" /\ UNCHANGED << failure, exitCode >>
    /\ UNCHANGED << env, params, provider, deferred, traceID, parentSpanID, ctx,
                    startedAtTime, endTime, attributes, span, history,
                    exported, flushError >>

DecodeTraceID ==
    /\ pc = "decodeTraceID"
    /\ LET r == DecodeString(parts[2])
       IN  /\ traceID' = r.bytes
           /\ IF r.err
              THEN Fatalf("InvalidTraceContext")
              ELSE pc' = "decodeSpanID" /\ UNCHANGED << failure, exitCode >>
    /\ UNCHANGED << env, params, provider, deferred, parts, parentSpanID, ctx,
                    startedAtTime, endTime, attributes, span, history,
                    exported, flushError >>

DecodeParentSpanID ==
    /\ pc = "decodeSpanID"
    /\ LET r == DecodeString(parts[3])
       IN  /\ parentSpanID' = r.bytes
           /\ IF r.err
              THEN Fatalf("InvalidTraceContext")
              ELSE pc' = "newSpanContext" /\ UNCHANGED << failure, exitCode >>
    /\ UNCHANGED << env, params, provider, deferred, parts, traceID, ctx,
                    startedAtTime, endTime, attributes, span, history,
                    exported, flushError >>

\* trace.NewSpanContext and trace.ContextWithRemoteSpanContext; a failed
\* conversion panics, and the panic unwinds main
NewSpanContext ==
    /\ pc = "newSpanContext"
    /\ LET t == ToArray(traceID, TraceIDLen)
           p == ToArray(parentSpanID, SpanIDLen)
       IN  IF t.panic \/ p.panic
           THEN /\ pc' = "panicking"
                /\ failure' = "panic"
                /\ UNCHANGED << ctx, history >>
           ELSE /\ ctx' = [ traceID |-> t.id, spanID |-> p.id,
                            sampled |-> TRUE, remote |-> TRUE ]
                /\ history' = Append(history, "ContextResolved")
                /\ pc' = "parseStartedAt"
                /\ UNCHANGED failure
    /\ UNCHANGED << env, params, provider, deferred, parts, traceID, parentSpanID,
                    startedAtTime, endTime, attributes, span,
                    exported, flushError, exitCode >>

ParseStartedAt ==
    /\ pc = "parseStartedAt"
    /\ LET r == ParseRFC3339(params.StartedAt)
       IN  /\ startedAtTime' = r.t
           /\ IF r.err
              THEN Fatalf("InvalidTimestamp")
              ELSE /\ pc' = IF variant = "v1" THEN "v1Now" ELSE "startSpan"
                   /\ UNCHANGED << failure, exitCode >>
    /\ UNCHANGED << env, params, provider, deferred, parts, traceID, parentSpanID,
                    ctx, endTime, attributes, span, history, exported, flushError >>

SpanName == IF variant = "v1" THEN "Export Job Telemetry" ELSE "Job telemetry"

StartSpan ==
    /\ pc = "startSpan"
    /\ span' = Start(ctx, SpanName, startedAtTime)
    /\ history' = Append(history, "SpanOpen")
    /\ pc' = CASE variant = "cmd" -> "cmdConclusion"
               [] variant = "v2"  -> "v2Conclusion"
               [] OTHER           -> "v1End"
    /\ UNCHANGED << env, params, provider, deferred, decoded, endTime,
                    attributes, outcome >>

\* the deferred shutdownTracer, run when main returns or panics, and the
\* exit of the process after it: status 0 after a return, 2 after a panic.
\* Shutdown hands the ended spans to the exporter; when it reports an error
\* they may or may not have been delivered.
ShutdownTracer ==
    /\ pc \in {"return", "panicking"}
    /\ deferred
    /\ \E err \in BOOLEAN, delivered \in BOOLEAN :
         /\ ~err => delivered
         /\ flushError' = err
         /\ exported' = IF delivered /\ span.state = "ended" THEN {span} ELSE {}
    /\ provider' = [provider EXCEPT !.state = "shutdown"]
    /\ history' = Append(history, "Flushed")
    /\ exitCode' = IF pc = "panicking" THEN 2 ELSE 0
    /\ pc' = "exited"
    /\ UNCHANGED << env, params, deferred, decoded, endTime, attributes, span,
                    failure >>

(***************************************************************************)
(* main of src/cmd/export-job-telemetry/main.go, after the span is started *)
(***************************************************************************)
CmdSetConclusion ==
    /\ pc = "cmdConclusion"
    /\ span' = SetAttributes(span, <<StringAttr(ConclusionKey, params.JobStatus)>>)
    /\ history' = Append(history, "AttributesAttached")
    /\ pc' = "cmdStatus"
    /\ UNCHANGED << env, params, provider, deferred, decoded, endTime,
                    attributes, outcome >>

\* a main that never sets the span status
CmdSkipStatus ==
    /\ pc = "cmdStatus"
    /\ pc' = "cmdLatency"
    /\ UNCHANGED << env, params, provider, deferred, decoded, endTime,
                    attributes, span, history, outcome >>

CmdSetStatus ==
    /\ pc = "cmdStatus"
    /\ LET st == StatusOf(params.JobStatus)
       IN  span' = SetStatus(span, st.code, st.message)
    /\ history' = Append(history, "StatusSet")
    /\ pc' = "cmdLatency"
    /\ UNCHANGED << env, params, provider, deferred, decoded, endTime,
                    attributes, outcome >>

CmdLatency ==
    /\ pc = "cmdLatency"
    /\ IF params.CreatedAt # ""
       THEN LET r == ParseRFC3339(params.CreatedAt)
            IN  IF r.err
                THEN /\ Fatalf("InvalidTimestamp")
                     /\ UNCHANGED << span, history >>
                ELSE /\ span' = SetAttributes(span,
                            <<Int64Attr(CmdLatencyKey,
                                        Milliseconds(Sub(startedAtTime, r.t)))>>)
                     /\ history' = Append(history, "AttributesAttached")
                     /\ pc' = "cmdResource"
                     /\ UNCHANGED << failure, exitCode >>
       ELSE /\ pc' = "cmdResource"
            /\ UNCHANGED << span, history, failure, exitCode >>
    /\ UNCHANGED << env, params, provider, deferred, decoded, endTime,
                    attributes, exported, flushError >>

CmdResourceAttrs ==
    /\ pc = "cmdResource"
    /\ LET kvs == MapAttrs(params.OtelResourceAttrs, DOMAIN params.OtelResourceAttrs)
       IN  /\ span' = SetAttributes(span, kvs)
           /\ history' = history \o [i \in 1..Len(kvs) |-> "AttributesAttached"]
    /\ pc' = "cmdDuration"
    /\ UNCHANGED << env, params, provider, deferred, decoded, endTime,
                    attributes, outcome >>

CmdDuration ==
    /\ pc = "cmdDuration"
    /\ \E now \in NowSamples :
         /\ endTime' = now
         /\ span' = SetAttributes(span,
                <<Int64Attr(DurationKey, Milliseconds(Sub(now, startedAtTime)))>>)
    /\ history' = Append(history, "AttributesAttached")
    /\ pc' = "cmdEnd"
    /\ UNCHANGED << env, params, provider, deferred, decoded, attributes, outcome >>

CmdEnd ==
    /\ pc = "cmdEnd"
    /\ span' = End(span, endTime)
    /\ history' = Append(history, "SpanClosed")
    /\ pc' = "return"
    /\ UNCHANGED << env, params, provider, deferred, decoded, endTime,
                    attributes, outcome >>

(***************************************************************************)
(* main of src/unnamed/part_001 lines 98-185 (variant v2)                  *)
(***************************************************************************)
V2Conclusion ==
    /\ pc = "v2Conclusion"
    /\ attributes' = <<StringAttr(ConclusionKey, params.JobStatus)>>
    /\ pc' = "v2Status"
    /\ UNCHANGED << env, params, provider, deferred, decoded, endTime, span,
                    history, outcome >>

V2SetStatus ==
    /\ pc = "v2Status"
    /\ LET st == StatusOf(params.JobStatus)
       IN  span' = SetStatus(span, st.code, st.message)
    /\ history' = Append(history, "StatusSet")
    /\ pc' = "v2Latency"
    /\ UNCHANGED << env, params, provider, deferred, decoded, endTime,
                    attributes, outcome >>

V2Latency ==
    /\ pc = "v2Latency"
    /\ IF params.CreatedAt # ""
       THEN LET r == ParseRFC3339(params.CreatedAt)
            IN  IF r.err
                THEN /\ Fatalf("InvalidTimestamp")
                     /\ UNCHANGED attributes
                ELSE /\ attributes' = Append(attributes,
                            Int64Attr(V2LatencyKey,
                                      Milliseconds(Sub(startedAtTime, r.t))))
                     /\ pc' = "v2JobName"
                     /\ UNCHANGED << failure, exitCode >>
       ELSE /\ pc' = "v2JobName"
            /\ UNCHANGED << attributes, failure, exitCode >>
    /\ UNCHANGED << env, params, provider, deferred, decoded, endTime, span,
                    history, exported, flushError >>

\* the err tested under params.JobName != "" is the nil error of the
\* started-at parse, so that branch never aborts
V2JobName ==
    /\ pc = "v2JobName"
    /\ attributes' = IF params.JobName # ""
                     THEN Append(attributes, StringAttr(JobNameKey, params.JobName))
                     ELSE attributes
    /\ pc' = "v2Duration"
    /\ UNCHANGED << env, params, provider, deferred, decoded, endTime, span,
                    history, outcome >>

V2Duration ==
    /\ pc = "v2Duration"
    /\ \E now \in NowSamples :
         /\ endTime' = now
         /\ attributes' = Append(attributes,
                Int64Attr(DurationKey, Milliseconds(Sub(now, startedAtTime))))
    /\ pc' = "v2Resource"
    /\ UNCHANGED << env, params, provider, deferred, decoded, span, history,
                    outcome >>

V2ResourceAttrs ==
    /\ pc = "v2Resource"
    /\ attributes' = attributes
           \o MapAttrs(params.OtelResourceAttrs, DOMAIN params.OtelResourceAttrs)
    /\ pc' = "v2SetAttributes"
    /\ UNCHANGED << env, params, provider, deferred, decoded, endTime, span,
                    history, outcome >>

V2SetAttributes ==
    /\ pc = "v2SetAttributes"
    /\ span' = SetAttributes(span, attributes)
    /\ history' = Append(history, "AttributesAttached")
    /\ pc' = "v2End"
    /\ UNCHANGED << env, params, provider, deferred, decoded, endTime,
                    attributes, outcome >>

V2End ==
    /\ pc = "v2End"
    /\ span' = End(span, endTime)
    /\ history' = Append(history, "SpanClosed")
    /\ pc' = "return"
    /\ UNCHANGED << env, params, provider, deferred, decoded, endTime,
                    attributes, outcome >>

(***************************************************************************)
(* main of src/unnamed/part_001 lines 279-339 (variant v1)                 *)
(***************************************************************************)
V1Now ==
    /\ pc = "v1Now"
    /\ \E now \in NowSamples : endTime' = now
    /\ pc' = "startSpan"
    /\ UNCHANGED << env, params, provider, deferred, decoded, attributes, span,
                    history, outcome >>

V1End ==
    /\ pc = "v1End"
    /\ span' = End(span, endTime)
    /\ history' = Append(history, "SpanClosed")
    /\ pc' = "v1Duration"
    /\ UNCHANGED << env, params, provider, deferred, decoded, endTime,
                    attributes, outcome >>

V1Duration ==
    /\ pc = "v1Duration"
    /\ span' = SetAttributes(span,
            <<Int64Attr(V1DurationKey, Milliseconds(Sub(endTime, startedAtTime)))>>)
    /\ history' = Append(history, "AttributesAttached")
    /\ pc' = "v1Resource"
    /\ UNCHANGED << env, params, provider, deferred, decoded, endTime,
                    attributes, outcome >>

V1ResourceAttrs ==
    /\ pc = "v1Resource"
    /\ LET kvs == MapAttrs(params.OtelResourceAttrs, DOMAIN params.OtelResourceAttrs)
       IN  /\ span' = SetAttributes(span, kvs)
           /\ history' = history \o [i \in 1..Len(kvs) |-> "AttributesAttached"]
    /\ pc' = "return"
    /\ UNCHANGED << env, params, provider, deferred, decoded, endTime,
                    attributes, outcome >>

(***************************************************************************)
(* Specification                                                           *)
(***************************************************************************)
Next ==
    \/ ParseInputParams
    \/ InitTracer
    \/ SplitTraceparent
    \/ DecodeTraceID
    \/ DecodeParentSpanID
    \/ NewSpanContext
    \/ ParseStartedAt
    \/ StartSpan
    \/ CmdSetConclusion
    \/ CmdSetStatus
    \/ CmdLatency
    \/ CmdResourceAttrs
    \/ CmdDuration
    \/ CmdEnd
    \/ V2Conclusion
    \/ V2SetStatus
    \/ V2Latency
    \/ V2JobName
    \/ V2Duration
    \/ V2ResourceAttrs
    \/ V2SetAttributes
    \/ V2End
    \/ V1Now
    \/ V1End
    \/ V1Duration
    \/ V1ResourceAttrs
    \/ ShutdownTracer

Spec == Init /\ [][Next]_vars

(***************************************************************************)
(* Vocabulary of the properties                                            *)
(***************************************************************************)
Exited == pc = "exited"

\* the span was ended, i.e. handed to the export pipeline
Emitted == span.state = "ended"

Segments == Split(inputs.traceparent, "-")

HexChars ==
    { "0", "1", "2", "3", "4", "5", "6", "7", "8", "9",
      "a", "b", "c", "d", "e", "f", "A", "B", "C", "D", "E", "F" }

IsHex(s) == \A i \in 1..Len(s) : Char(s, i) \in HexChars

\* odd length or a character that is no hex digit
BadHex(s) == (Len(s) % 2 = 1) \/ ~IsHex(s)

LowerChar(c) ==
    CASE c = "A" -> "a" [] c = "B" -> "b" [] c = "C" -> "c"
      [] c = "D" -> "d" [] c = "E" -> "e" [] c = "F" -> "f"
      [] OTHER -> c

RECURSIVE LowerFrom(_, _)
LowerFrom(s, i) ==
    IF i > Len(s) THEN "" ELSE LowerChar(Char(s, i)) \o LowerFrom(s, i + 1)

Lower(s) == LowerFrom(s, 1)

\* the provider was built by initTracer
ProviderInitialized == provider.state # "none"

(***************************************************************************)
(* C1: once the tracer provider is initialized, its shutdown is invoked    *)
(* before the process exits, on the normal path and on every fatal-abort   *)
(* path: no run exits with an initialized provider never shut down.        *)
(***************************************************************************)
C1_ShutdownOnEveryExit ==
    (Exited /\ ProviderInitialized) => provider.state = "shutdown"

(***************************************************************************)
(* C2: a 4-segment traceparent whose trace-id is valid hex of a length     *)
(* other than 16 bytes, or whose parent-id is valid hex of a length other  *)
(* than 8 bytes, is rejected as InvalidTraceContext: the run aborts as a   *)
(* reported fatal input error and opens no span.                           *)
(***************************************************************************)
WrongLength ==
    /\ Len(Segments) = 4
    /\ ~BadHex(Segments[2])
    /\ ~BadHex(Segments[3])
    /\ \/ Len(Segments[2]) # 2 * TraceIDLen
       \/ Len(Segments[3]) # 2 * SpanIDLen

C2_WrongLengthRejected ==
    (Exited /\ ProviderInitialized /\ WrongLength) =>
        /\ failure = "InvalidTraceContext"
        /\ exitCode = 1
        /\ span.state = "none"

(***************************************************************************)
(* C3: a traceparent with a segment count other than 4, or whose trace-id  *)
(* or parent-id segment has odd length or a non-hex character, is rejected *)
(* as InvalidTraceContext: no span is ever opened or exported for it and   *)
(* the run ends with a non-zero exit code.                                 *)
(***************************************************************************)
Malformed ==
    \/ Len(Segments) # 4
    \/ BadHex(Segments[2])
    \/ BadHex(Segments[3])

C3_MalformedRejected ==
    Malformed =>
        /\ span.state = "none"
        /\ exported = {}
        /\ pc \notin {"panicking", "return"}
        /\ (ProviderInitialized /\ Exited) =>
               (failure = "InvalidTraceContext" /\ exitCode = 1)
        /\ Exited => exitCode # 0

C3_Witness ==
    /\ Exited
    /\ Len(Segments) = 4
    /\ IsHex(Segments[2]) /\ Len(Segments[2]) % 2 = 1
    /\ failure = "InvalidTraceContext"
    /\ exitCode = 1

(***************************************************************************)
(* C4: every one of the four error kinds is fatal: when an exporter       *)
(* initialization error, a trace-context error, a timestamp error or a     *)
(* flush error occurs, the process ends with a non-zero exit code; a       *)
(* shutdown error at the end of an otherwise successful run does not end   *)
(* with exit code 0.                                                       *)
(***************************************************************************)
C4_AllErrorsFatal ==
    (Exited /\ (failure # "none" \/ flushError)) => exitCode # 0

(***************************************************************************)
(* C5: the job-status to span-status mapping is total and fixed:           *)
(* "success" gives Ok / "Job completed successfully", "failure" gives      *)
(* Error / "Job failed", anything else (also "" and "cancelled") gives     *)
(* Unset / "Job status unknown"; no status value makes the run fail.       *)
(***************************************************************************)
ExpectedStatus ==
    IF inputs.jobStatus = "success"
    THEN [code |-> "Ok", message |-> "Job completed successfully"]
    ELSE IF inputs.jobStatus = "failure"
    THEN [code |-> "Error", message |-> "Job failed"]
    ELSE [code |-> "Unset", message |-> "Job status unknown"]

\* the inputs other than job-status are well formed
OtherInputsValid ==
    /\ Len(Segments) = 4
    /\ ~BadHex(Segments[2]) /\ Len(Segments[2]) = 2 * TraceIDLen
    /\ ~BadHex(Segments[3]) /\ Len(Segments[3]) = 2 * SpanIDLen
    /\ ~ParseRFC3339(inputs.startedAt).err
    /\ inputs.createdAt # "" => ~ParseRFC3339(inputs.createdAt).err

C5_StatusMappingTotal ==
    variant \in {"cmd", "v2"} =>
        /\ span.statusSet => span.status = ExpectedStatus
        /\ (Exited /\ OtherInputsValid /\ failure # "ExporterInitError") =>
               /\ exitCode = 0
               /\ failure = "none"
               /\ span.state = "ended"
               /\ span.statusSet

C5_Witness ==
    /\ variant = "cmd"
    /\ Exited
    /\ exitCode = 0
    /\ inputs.jobStatus = ""
    /\ span.statusSet
    /\ span.status = [code |-> "Unset", message |-> "Job status unknown"]

(***************************************************************************)
(* C6: on every emitted span the queue-latency attribute is present        *)
(* exactly when created-at was supplied and is then started-at minus       *)
(* created-at in whole milliseconds (negative when created-at is later);   *)
(* the duration attribute is always present and is now minus started-at    *)
(* in whole milliseconds.                                                  *)
(***************************************************************************)
LatencyValue ==
    Value(Int64Attr(CmdLatencyKey,
        Milliseconds(ExactSub(ParseRFC3339(inputs.startedAt).t,
                              ParseRFC3339(inputs.createdAt).t))))

DurationValue ==
    Value(Int64Attr(DurationKey,
        Milliseconds(ExactSub(endTime, ParseRFC3339(inputs.startedAt).t))))

C6_TimingAttributes ==
    (variant = "cmd" /\ Emitted) =>
        /\ (CmdLatencyKey \in DOMAIN span.attrs) <=> (inputs.createdAt # "")
        /\ inputs.createdAt # "" => span.attrs[CmdLatencyKey] = LatencyValue
        /\ DurationKey \in DOMAIN span.attrs
        /\ span.attrs[DurationKey] = DurationValue

(***************************************************************************)
(* C7 as stated: on every emitted span the start timestamp is the parsed   *)
(* started-at input, and the duration attribute is the whole-millisecond   *)
(* difference between that span's end timestamp and its start timestamp.   *)
(***************************************************************************)
C7_ExactDifference ==
    (variant = "cmd" /\ Emitted) =>
        /\ span.start = ParseRFC3339(inputs.startedAt).t
        /\ DurationKey \in DOMAIN span.attrs
        /\ span.attrs[DurationKey] =
               Value(Int64Attr(DurationKey, Milliseconds(ExactSub(span.end, span.start))))

(***************************************************************************)
(* C7 amended: on every emitted span the start timestamp is the parsed     *)
(* started-at input, and the duration attribute is the whole-millisecond   *)
(* value of the Duration between that span's end timestamp and its start   *)
(* timestamp, a Duration being limited to the int64 range of nanoseconds   *)
(* (about 292 years either way): the attribute and the end timestamp come  *)
(* from one reading of the clock.                                          *)
(***************************************************************************)
C7_StartAndDurationConsistent ==
    (variant = "cmd" /\ Emitted) =>
        /\ span.start = ParseRFC3339(inputs.startedAt).t
        /\ DurationKey \in DOMAIN span.attrs
        /\ span.attrs[DurationKey] =
               Value(Int64Attr(DurationKey, Milliseconds(Sub(span.end, span.start))))

C7_Witness ==
    /\ variant = "cmd"
    /\ Emitted
    /\ inputs.startedAt = "2024-01-01T00:00:00Z"
    /\ span.start = [day |-> 19723, sec |-> 0, nsec |-> 0]
    /\ span.end = [day |-> 19723, sec |-> 5, nsec |-> 0]
    /\ span.attrs[DurationKey].num = Millis(5000)

(***************************************************************************)
(* C8 as stated: a successful invocation passes ContextResolved, SpanOpen, *)
(* AttributesAttached, StatusSet, SpanClosed, Flushed in exactly that      *)
(* order, each step once and none re-entered.                              *)
(***************************************************************************)
Count(seq, x) == Cardinality({i \in DOMAIN seq : seq[i] = x})

\* seq with every run of equal consecutive elements reduced to one element
Collapsed(seq) ==
    LET P == {i \in DOMAIN seq : i = 1 \/ seq[i] # seq[i - 1]}
    IN  [k \in 1..Cardinality(P) |-> seq[Nth(P, k)]]

Successful == Exited /\ exitCode = 0 /\ variant \in {"cmd", "v2"}

C9_SpanAttributes ==
    (variant \in {"cmd", "v2"} /\ Emitted) =>
        /\ ConclusionKey \in DOMAIN span.attrs
        /\ span.attrs[ConclusionKey] = Value(StringAttr(ConclusionKey, inputs.jobStatus))
        /\ (JobNameKey \in DOMAIN span.attrs) <=> (inputs.jobName # "")
        /\ inputs.jobName # "" =>
               span.attrs[JobNameKey] = Value(StringAttr(JobNameKey, inputs.jobName))
        /\ \A k \in DOMAIN parseKeyValuePairs(inputs.otelResourceAttributes) :
               k \in DOMAIN span.attrs /\ span.attrs[k].kind = "STRING"

(***************************************************************************)
(* C10: for a traceparent of exactly 4 segments whose trace-id is 32 hex   *)
(* characters and whose parent-id is 16 hex characters, in either letter   *)
(* case, the remote parent context of the emitted span renders as hex to   *)
(* the input segments, case-insensitively.                                 *)
(***************************************************************************)
WellFormedTraceparent ==
    /\ Len(Segments) = 4
    /\ Len(Segments[2]) = 32 /\ IsHex(Segments[2])
    /\ Len(Segments[3]) = 16 /\ IsHex(Segments[3])

C10_ParentRoundTrip ==
    (Emitted /\ WellFormedTraceparent) =>
        /\ span.parent.remote
        /\ EncodeToString(span.parent.traceID) = Lower(Segments[2])
        /\ EncodeToString(span.parent.spanID) = Lower(Segments[3])
        /\ inputs.traceparent = "00-4bf92f3577b34da6a3ce929d0e0e4736-00f067aa0ba902b7-01" =>
               /\ EncodeToString(span.parent.traceID) = "4bf92f3577b34da6a3ce929d0e0e4736"
               /\ EncodeToString(span.parent.spanID) = "00f067aa0ba902b7"

C10_Witness ==
    /\ Emitted
    /\ inputs.traceparent = "00-4BF92F3577B34DA6A3CE929D0E0E4736-00F067AA0BA902b7-00"
    /\ EncodeToString(span.parent.traceID) = "4bf92f3577b34da6a3ce929d0e0e4736"
    /\ EncodeToString(span.parent.spanID) = "00f067aa0ba902b7"

(***************************************************************************)
(* parseKeyValuePairs on its own: parseInputParams applied to every short  *)
(* string over the characters that matter to it                            *)
(***************************************************************************)
KVAlphabet == {"a", "b", "=", ","}

RECURSIVE KVStrings(_)
KVStrings(n) ==
    IF n = 0 THEN {""}
    ELSE LET shorter == KVStrings(n - 1)
         IN  shorter \cup {s \o c : s \in shorter, c \in KVAlphabet}

KVExamples ==
    { "a=1,bad,b=2", "a=1,b=2", "a=1,a=2", "k=v=w,k=x", "authorization=Bearer a=b" }

KVInputs == KVStrings(MaxKVLen) \cup KVExamples

KVInit ==
    /\ variant \in Variants
    /\ inputs \in [ traceparent : {"00-" \o TraceIDHex \o "-" \o ParentIDHex \o "-01"},
                    otelResourceAttributes : KVExamples,
                    otelServiceName : ServiceNames,
                    otelExporterOtlpEndpoint : Endpoints,
                    otelExporterOtlpHeaders : KVInputs,
                    startedAt : {"2024-01-01T00:00:00Z"},
                    createdAt : {""},
                    jobStatus : {"success"},
                    jobName : {""} ]
    /\ pc = "parseInputParams"
    /\ params = NoParams
    /\ provider = NoProvider
    /\ deferred = FALSE
    /\ parts = <<>>
    /\ traceID = <<>>
    /\ parentSpanID = <<>>
    /\ ctx = NoContext
    /\ startedAtTime = ZeroTime
    /\ endTime = ZeroTime
    /\ attributes = <<>>
    /\ span = NoSpan
    /\ history = <<>>
    /\ exported = {}
    /\ failure = "none"
    /\ flushError = FALSE
    /\ exitCode = -1

KVNext == ParseInputParams

KVSpec == KVInit /\ [][KVNext]_vars

(***************************************************************************)
(* C11: parseKeyValuePairs never fails and returns exactly the mapping     *)
(* obtained by splitting on ',' and cutting each piece at its first '='    *)
(* only: pieces without '=' are dropped, the empty input gives the empty   *)
(* mapping, and of a repeated key the last occurrence's value is kept.     *)
(***************************************************************************)
Least(S) == CHOOSE p \in S : \A q \in S : p <= q
Greatest(S) == CHOOSE p \in S : \A q \in S : q <= p

\* where the pieces between commas start, and where the piece at i ends
PieceStarts(s) == {1} \cup {p + 1 : p \in {i \in 1..Len(s) : Char(s, i) = ","}}

PieceEnd(s, i) ==
    LET later == {p \in i..Len(s) : Char(s, p) = ","}
    IN  IF later = {} THEN Len(s) ELSE Least(later) - 1

EqualsIn(s, i) == {q \in i..PieceEnd(s, i) : Char(s, q) = "="}

PieceKey(s, i) == SubSeq(s, i, Least(EqualsIn(s, i)) - 1)

PieceValue(s, i) == SubSeq(s, Least(EqualsIn(s, i)) + 1, PieceEnd(s, i))

ExpectedPairs(s) ==
    LET good == {i \in PieceStarts(s) : EqualsIn(s, i) # {}}
    IN  [ k \in {PieceKey(s, i) : i \in good} |->
              PieceValue(s, Greatest({i \in good : PieceKey(s, i) = k})) ]

C11_KeyValuePairs ==
    pc # "parseInputParams" =>
        /\ pc = "initTracer"
        /\ failure = "none"
        /\ exitCode = -1
        /\ params.OtelExporterOtlpHeaders = ExpectedPairs(inputs.otelExporterOtlpHeaders)
        /\ params.OtelResourceAttrs = ExpectedPairs(inputs.otelResourceAttributes)
        /\ inputs.otelExporterOtlpHeaders = "" => params.OtelExporterOtlpHeaders = EmptyMap
        /\ inputs.otelExporterOtlpHeaders = "a=1,bad,b=2" =>
               params.OtelExporterOtlpHeaders = [a |-> "1", b |-> "2"]

C11_Witness ==
    /\ pc = "initTracer"
    /\ inputs.otelExporterOtlpHeaders = "a=1,bad,b=2"
    /\ inputs.otelResourceAttributes = "k=v=w,k=x"
    /\ params.OtelExporterOtlpHeaders = [a |-> "1", b |-> "2"]
    /\ params.OtelResourceAttrs = [k |-> "x"]

(***************************************************************************)
(* C12: the resource bound to the pipeline contains every entry of the     *)
(* resource-attribute mapping, except that service.name always has the     *)
(* value of the service-name input, whatever the mapping says and in       *)
(* whatever order the mapping is visited.                                  *)
(***************************************************************************)
C12_EveryEntryInResource ==
    ProviderInitialized =>
        /\ DOMAIN provider.resource = DOMAIN params.OtelResourceAttrs \cup {ServiceNameKey}
        /\ provider.resource[ServiceNameKey] = inputs.otelServiceName
        /\ \A k \in DOMAIN params.OtelResourceAttrs \ {ServiceNameKey} :
               /\ k \in DOMAIN provider.resource
               /\ provider.resource[k] = params.OtelResourceAttrs[k]

\* C12 as the code has it: the entries with a non-empty key, and service.name
\* from the service-name input
C12_ResourceOfNamedEntries ==
    ProviderInitialized =>
        /\ DOMAIN provider.resource =
               (DOMAIN params.OtelResourceAttrs \ {""}) \cup {ServiceNameKey}
        /\ provider.resource[ServiceNameKey] = inputs.otelServiceName
        /\ \A k \in DOMAIN params.OtelResourceAttrs \ {"", ServiceNameKey} :
               provider.resource[k] = params.OtelResourceAttrs[k]

C12_Witness ==
    /\ ProviderInitialized
    /\ inputs.otelResourceAttributes = "service.name=other,x=1"
    /\ params.OtelResourceAttrs = ("service.name" :> "other") @@ ("x" :> "1")
    /\ inputs.otelServiceName = "svc"
    /\ provider.resource = ("x" :> "1") @@ ("service.name" :> "svc")

(***************************************************************************)
(* C13: a caller-supplied resource attribute never replaces a computed CI  *)
(* attribute: on every emitted span the conclusion, the latency, the job   *)
(* name and the duration have the values main computed for them.           *)
(***************************************************************************)
LatencyKeyOf(v) == IF v = "cmd" THEN CmdLatencyKey ELSE V2LatencyKey

ComputedLatency ==
    Milliseconds(Sub(ParseRFC3339(inputs.startedAt).t, ParseRFC3339(inputs.createdAt).t))

ComputedDuration == Milliseconds(Sub(endTime, ParseRFC3339(inputs.startedAt).t))

C13_ComputedAttributesKept ==
    (variant \in {"cmd", "v2"} /\ Emitted) =>
        /\ ConclusionKey \in DOMAIN span.attrs
        /\ span.attrs[ConclusionKey] = Value(StringAttr(ConclusionKey, inputs.jobStatus))
        /\ inputs.createdAt # "" =>
               /\ LatencyKeyOf(variant) \in DOMAIN span.attrs
               /\ span.attrs[LatencyKeyOf(variant)] =
                      Value(Int64Attr(LatencyKeyOf(variant), ComputedLatency))
        /\ (variant = "v2" /\ inputs.jobName # "") =>
               /\ JobNameKey \in DOMAIN span.attrs
               /\ span.attrs[JobNameKey] = Value(StringAttr(JobNameKey, inputs.jobName))
        /\ DurationKey \in DOMAIN span.attrs
        /\ span.attrs[DurationKey] = Value(Int64Attr(DurationKey, ComputedDuration))

(***************************************************************************)
(* C14: in every variant of main no attribute and no status is written to  *)
(* the span after span.End has been called on it.                          *)
(***************************************************************************)
C14_NoWriteAfterEnd ==
    \A i, j \in 1..Len(history) :
        (i < j /\ history[i] = "SpanClosed") =>
            history[j] \notin {"AttributesAttached", "StatusSet"}

(***************************************************************************)
(* C15: all input validation (traceparent shape, hex ids, started-at,      *)
(* created-at) is complete before the span is opened: no run aborts on a   *)
(* fatal input error while a span is started and not ended.                *)
(***************************************************************************)
InputErrors == {"InvalidTraceContext", "InvalidTimestamp"}

C15_ValidationBeforeSpan ==
    (Exited /\ failure \in InputErrors) => span.state # "recording"

====
